---- MODULE Spec2Model ----
(***************************************************************************)
(* A model of pvmismatch/pvmismatch_lib/pvmodule.py: the PVmodule class,   *)
(* its constructor, setSuns and calcMod, and the cell position builders.   *)
(*                                                                         *)
(* Python objects are modelled by identity: a CellState (PVcell) object is *)
(* an index into `heap`, a Python list of cells is an index into           *)
(* `listHeap`.  copy() appends a new entry.  Cell indices are 0-based as   *)
(* in the source; sequences are 1-based, so list[i] is written seq[i+1].   *)
(*                                                                         *)
(* Curves are sampled on NPTS points, with integer samples.  Voltages are  *)
(* in units of half a volt (VBYPASS = -0.5 V is -1).  Sample 1 is the      *)
(* reverse-bias end of a curve, sample NPTS the open-circuit end.          *)
(***************************************************************************)
EXTENDS Integers, Sequences, FiniteSets, TLC

VARIABLES
    phase,      \* "new" | "built" | "failed": position of the constructor
    cell_pos,   \* self.cell_pos: substrings -> columns -> cell slots
    ctorCells,  \* the pvcells argument the constructor was given
    pvcells,    \* self.pvcells: the identity of the list (index in listHeap)
    listHeap,   \* every Python list of cells ever created
    heap,       \* every PVcell object ever created: [Ee, VRBD]
    derived,    \* self.Imod, Vmod, Pmod, Isubstr, Vsubstr
    pre,        \* history: the module's state before the last call
    last,       \* history: the last call, its arguments and outcome
    ncalls,     \* number of setSuns calls made
    walk        \* calcMod's mixed-branch column walk, unfolded step by step

vars == <<phase, cell_pos, ctorCells, pvcells, listHeap, heap, derived, pre,
          last, ncalls, walk>>

---------------------------------------------------------------------------
(* Bounds of the model *)

MaxCalls == 2
MaxTargets == 2
MaxCols == 3

(* Program constants *)

VBYPASS == -1

---------------------------------------------------------------------------
(* numpy helpers *)

RECURSIVE SeqSum(_)
SeqSum(s) == IF s = <<>> THEN 0 ELSE Head(s) + SeqSum(Tail(s))

SeqMax(s) == CHOOSE x \in {s[i] : i \in DOMAIN s} :
                 \A y \in {s[i] : i \in DOMAIN s} : y <= x

SeqMin(s) == CHOOSE x \in {s[i] : i \in DOMAIN s} :
                 \A y \in {s[i] : i \in DOMAIN s} : x <= y

Mean(s) == SeqSum(s) \div Len(s)

\* np.asarray: the values of a comprehension as an array
asarray(f) == f \o <<>>

Reverse(s) == asarray([i \in 1..Len(s) |-> s[Len(s) + 1 - i]])

RECURSIVE Flatten(_)
Flatten(ss) == IF ss = <<>> THEN <<>> ELSE Head(ss) \o Flatten(Tail(ss))

\* np.interp(x, xp, fp) for increasing xp: the end values outside the range,
\* linear in between (rounded down to the integer grid).
np_interp(x, xp, fp) ==
    IF x <= xp[1] THEN fp[1]
    ELSE IF x >= xp[Len(xp)] THEN fp[Len(xp)]
    ELSE LET k == CHOOSE j \in 1..(Len(xp) - 1) :
                      /\ xp[j] <= x /\ x < xp[j + 1]
                      /\ \A i \in 1..(Len(xp) - 1) :
                            (xp[i] <= x /\ x < xp[i + 1]) => j <= i
         IN  fp[k] + ((x - xp[k]) * (fp[k + 1] - fp[k])) \div (xp[k + 1] - xp[k])

---------------------------------------------------------------------------
(* The single-cell solver (pvcell.py) and the curve primitives            *)
(* (pvconstants.py), modelled from their contracts.                        *)

NPTS == 3
VOC == 1
ISC0 == 2
VRBD0 == -4

PVcell(Ee, vrbd) == [Ee |-> Ee, VRBD |-> vrbd]

CellIsc(o) == ISC0 * o.Ee
\* the open-circuit voltage grows with the irradiance (VOC at one sun)
CellVoc(o) == VOC + o.Ee - 1
CellVcell(o) == <<o.VRBD, 0, CellVoc(o)>>
CellIcell(o) == <<CellIsc(o) + 2, CellIsc(o), 0>>

\* series-combine: a common current grid bounded by Imax, the voltages of
\* every curve resampled at the grid's currents and summed.
calcSeries(I, V, meanIsc, Imax) ==
    LET Itot == <<Imax, meanIsc, 0>>
    IN  [I |-> Itot,
         V |-> asarray([j \in 1..NPTS |->
                  SeqSum([k \in 1..Len(I) |->
                      np_interp(Itot[j], Reverse(I[k]), Reverse(V[k]))])])]

\* parallel-combine: a common voltage grid bounded by Vmax and Vmin, the
\* currents of every curve resampled at the grid's voltages and summed.
calcParallel(I, V, Vmax, Vmin) ==
    LET Vtot == <<Vmin, 0, Vmax>>
    IN  [I |-> asarray([j \in 1..NPTS |->
                  SeqSum([k \in 1..Len(I) |->
                      np_interp(Vtot[j], V[k], I[k])])]),
         V |-> Vtot]

\* get_series_cells(col, prev_col): the runs of cells between crossties.  A
\* crosstied row closes the run of series rows before it (empty when there
\* is none) and stands alone; the run after the last crosstie comes last.
RECURSIVE get_series_cells_from(_, _, _)
get_series_cells_from(col, r, run) ==
    IF r > Len(col) THEN <<run>>
    ELSE IF col[r].crosstie
         THEN <<run, <<col[r].idx>>>> \o get_series_cells_from(col, r + 1, <<>>)
         ELSE get_series_cells_from(col, r + 1, Append(run, col[r].idx))

get_series_cells(col, prev_col) == get_series_cells_from(col, 1, <<>>)

---------------------------------------------------------------------------
(* Cell position patterns *)

Slot(ct, i) == [crosstie |-> ct, idx |-> i]

\* the column `col` of a standard module: rows snake up and down
standard_column(nrows, col) ==
    [row1 \in 1..nrows |->
        Slot(FALSE, col * nrows + (IF col % 2 = 0 THEN row1 - 1
                                   ELSE nrows - (row1 - 1) - 1))]

RECURSIVE standard_substrs(_, _, _)
standard_substrs(nrows, ncols_per_substr, col0) ==
    IF ncols_per_substr = <<>> THEN <<>>
    ELSE LET n == Head(ncols_per_substr)
         IN  <<[c \in 1..n |-> standard_column(nrows, col0 + c - 1)]>>
             \o standard_substrs(nrows, Tail(ncols_per_substr), col0 + n)

standard_cellpos_pat(nrows, ncols_per_substr) ==
    standard_substrs(nrows, ncols_per_substr, 0)

RECURSIVE crosstied_substrs(_, _, _, _, _)
crosstied_substrs(nrows_per_substrs, ncols, partial, trows, row0) ==
    IF nrows_per_substrs = <<>> THEN <<>>
    ELSE LET n == Head(nrows_per_substrs)
         IN  <<[c \in 1..ncols |->
                  [r \in 1..n |->
                      Slot(~(partial /\ r > 1), (c - 1) * trows + row0 + r - 1)]]>>
             \o crosstied_substrs(Tail(nrows_per_substrs), ncols, partial,
                                  trows, row0 + n)

crosstied_cellpos_pat(nrows_per_substrs, ncols, partial) ==
    crosstied_substrs(nrows_per_substrs, ncols, partial,
                      SeqSum(nrows_per_substrs), 0)

\* sum([len(c) for s in self.cell_pos for c in s])
numberCellsOf(cp) == SeqSum([s \in 1..Len(cp) |->
                        SeqSum([c \in 1..Len(cp[s]) |-> Len(cp[s][c])])])

\* every slot of a pattern, flattened
SlotsOf(cp) == Flatten([s \in 1..Len(cp) |-> Flatten(cp[s])])

---------------------------------------------------------------------------
(* Per-cell views of the module (the properties Icell, Vcell, Isc, ...),   *)
(* read through the cell bindings `cells` (a sequence of heap indices).    *)

ObjAt(cells, hp, i) == hp[cells[i + 1]]

\* numpy raises IndexError for an index outside the array
InRange(cells, idxs) == \A k \in DOMAIN idxs : idxs[k] < Len(cells)

IcellAt(cells, hp, idxs) ==
    asarray([k \in DOMAIN idxs |-> CellIcell(ObjAt(cells, hp, idxs[k]))])
VcellAt(cells, hp, idxs) ==
    asarray([k \in DOMAIN idxs |-> CellVcell(ObjAt(cells, hp, idxs[k]))])
IscAt(cells, hp, idxs) ==
    asarray([k \in DOMAIN idxs |-> CellIsc(ObjAt(cells, hp, idxs[k]))])
VocAt(cells, hp, idxs) ==
    asarray([k \in DOMAIN idxs |-> CellVoc(ObjAt(cells, hp, idxs[k]))])
VRBDAt(cells, hp, idxs) ==
    asarray([k \in DOMAIN idxs |-> ObjAt(cells, hp, idxs[k]).VRBD])

\* self.VRBD: the breakdown voltage of every cell of the module
VRBD(cells, hp) == asarray([k \in DOMAIN cells |-> hp[cells[k]].VRBD])

\* series circuit of the cells idxs: calcSeries with the mean Isc and the
\* largest of the cells' currents at their own breakdown voltage
SeriesOfCells(cells, hp, idxs) ==
    LET I == IcellAt(cells, hp, idxs)
        V == VcellAt(cells, hp, idxs)
        vrbd == VRBDAt(cells, hp, idxs)
        IatVrbd == asarray([k \in DOMAIN idxs |-> np_interp(vrbd[k], V[k], I[k])])
    IN  calcSeries(I, V, Mean(IscAt(cells, hp, idxs)), SeqMax(IatVrbd))

Failed(e) == [ok |-> FALSE, err |-> e]

\* a substring's curve, as calcMod appends it to Isubstr and Vsubstr
Solved(sv) == [ok |-> TRUE, I |-> sv.I, V |-> sv.V]

---------------------------------------------------------------------------
(* combine_parallel_circuits and calcMod *)

AllSamples(curves) == Flatten(curves)

MinLen(ss) == IF ss = <<>> THEN 0 ELSE SeqMin([k \in DOMAIN ss |-> Len(ss[k])])

\* series circuit of row curves: calcSeries with the mean of the rows'
\* currents at zero voltage and the largest of the rows' currents
SeriesOfRows(rows) ==
    calcSeries(asarray([r \in DOMAIN rows |-> rows[r].I]),
               asarray([r \in DOMAIN rows |-> rows[r].V]),
               Mean(asarray([r \in DOMAIN rows |-> np_interp(0, rows[r].V, rows[r].I)])),
               SeqMax(asarray([r \in DOMAIN rows |-> SeqMax(rows[r].I)])))

\* zip(*IVprev_cols) pairs the columns' circuits row by row (up to the
\* shortest column); each row is combined in parallel, the rows in series.
combine_parallel_circuits(IVprev_cols) ==
    LET nrows == MinLen(IVprev_cols)
        Ipar(r) == asarray([c \in DOMAIN IVprev_cols |-> IVprev_cols[c][r].I])
        Vpar(r) == asarray([c \in DOMAIN IVprev_cols |-> IVprev_cols[c][r].V])
        rows == asarray([r \in 1..nrows |->
                    calcParallel(Ipar(r), Vpar(r), SeqMax(AllSamples(Vpar(r))),
                                 SeqMin(AllSamples(Vpar(r))))])
    IN  SeriesOfRows(rows)

\* lines 340-363: the circuits of one column, the series cells between
\* crossties combined
RECURSIVE ColumnCircuits(_, _, _, _, _, _)
ColumnCircuits(pieces, k, is_first, IVcols, cells, hp) ==
    IF k > Len(pieces) THEN [ok |-> TRUE, IVcols |-> IVcols]
    ELSE LET idxs == pieces[k]
         IN  IF idxs = <<>>
             THEN ColumnCircuits(pieces, k + 1, FALSE, IVcols, cells, hp)
             ELSE IF is_first THEN Failed("TopologyError")
             ELSE IF ~InRange(cells, idxs) THEN Failed("IndexError")
             ELSE IF Len(idxs) > 1
             THEN ColumnCircuits(pieces, k + 1, is_first,
                      Append(IVcols, SeriesOfCells(cells, hp, idxs)), cells, hp)
             ELSE ColumnCircuits(pieces, k + 1, is_first,
                      Append(IVcols, [I |-> IcellAt(cells, hp, idxs)[1],
                                      V |-> VcellAt(cells, hp, idxs)[1]]),
                      cells, hp)

\* all(icol['crosstie'] == jcol['crosstie'] for icol, jcol in zip(prev_col, col))
SameCircuits(prev_col, col) ==
    \A r \in 1..(IF Len(prev_col) < Len(col) THEN Len(prev_col) ELSE Len(col)) :
        prev_col[r].crosstie = col[r].crosstie

\* The state of the column walk.  prev_col = <<>> is None.  `pending` and
\* `blocks` name the columns (by position in the substring) whose circuits
\* are in IVprev_cols and in each entry of IVall_cols.
WalkStart == [IVall_cols |-> <<>>, prev_col |-> <<>>, IVprev_cols |-> <<>>,
              err |-> "", pending |-> <<>>, blocks |-> <<>>, closed |-> FALSE]

\* lines 364-380: the column's circuits cc join IVprev_cols, then the
\* column is compared with the one before it
WalkAppend(ws, col, colno, cc) ==
    IF ~cc.ok THEN [ws EXCEPT !.err = cc.err]
    ELSE LET IVprev == Append(ws.IVprev_cols, cc.IVcols)
             pend == Append(ws.pending, colno)
         IN  IF ws.prev_col # <<>> /\ ~SameCircuits(ws.prev_col, col)
             THEN [IVall_cols |-> Append(ws.IVall_cols,
                                         combine_parallel_circuits(IVprev)),
                   prev_col |-> <<>>, IVprev_cols |-> <<>>, err |-> "",
                   pending |-> <<>>, blocks |-> Append(ws.blocks, pend),
                   closed |-> TRUE]
             ELSE [ws EXCEPT !.prev_col = col, !.IVprev_cols = IVprev,
                             !.pending = pend, !.closed = FALSE]

\* lines 336-380: one iteration of `for col in substr`
WalkCol(ws, col, colno, cells, hp) ==
    WalkAppend(ws, col, colno,
               ColumnCircuits(get_series_cells(col, ws.prev_col), 1, TRUE, <<>>,
                              cells, hp))

\* lines 381-393: the substring's curve once every column is consumed
WalkFinish(ws) ==
    IF ws.IVall_cols = <<>>
    THEN combine_parallel_circuits(ws.IVprev_cols)
    ELSE LET Ipar == asarray([b \in DOMAIN ws.IVall_cols |-> ws.IVall_cols[b].I])
             Vpar == asarray([b \in DOMAIN ws.IVall_cols |-> ws.IVall_cols[b].V])
         IN  calcParallel(Ipar, Vpar, SeqMax(AllSamples(Vpar)),
                          SeqMin(AllSamples(Vpar)))

\* the columns whose circuits are part of the curve WalkFinish returns
WalkUsed(ws) == IF ws.IVall_cols = <<>> THEN <<ws.pending>> ELSE ws.blocks

RECURSIVE WalkFrom(_, _, _, _, _)
WalkFrom(ws, substr, c, cells, hp) ==
    IF c > Len(substr) \/ ws.err # "" THEN ws
    ELSE WalkFrom(WalkCol(ws, substr[c], c, cells, hp), substr, c + 1, cells, hp)

AllCrosstie(substr, b) ==
    \A c \in DOMAIN substr : \A r \in DOMAIN substr[c] : substr[c][r].crosstie = b

\* lines 303-312: cells in series
SeriesSubstr(substr, cells, hp) ==
    LET flat == Flatten(substr)
        idxs == asarray([k \in DOMAIN flat |-> flat[k].idx])
    IN  IF ~InRange(cells, idxs) THEN Failed("IndexError")
        ELSE Solved(SeriesOfCells(cells, hp, idxs))

\* the lower voltage bound given to each row's calcParallel
CrosstiedVmin(substr, cells, hp) == SeqMin(VRBD(cells, hp))

\* line 317: idxs = [c['idx'] for c in row], for row r of zip(*substr)
RowIdxs(substr, r) == asarray([c \in DOMAIN substr |-> substr[c][r].idx])

\* lines 318-321: the arguments of the row's calcParallel
CrosstiedRowArgs(substr, r, cells, hp) ==
    [I |-> IcellAt(cells, hp, RowIdxs(substr, r)),
     V |-> VcellAt(cells, hp, RowIdxs(substr, r)),
     hint_Vmax |-> SeqMax(VocAt(cells, hp, RowIdxs(substr, r))),
     hint_Vmin |-> CrosstiedVmin(substr, cells, hp)]

\* lines 318-321: Irow, Vrow
CrosstiedRow(a) == calcParallel(a.I, a.V, a.hint_Vmax, a.hint_Vmin)

\* lines 313-331: every row crosstied
CrosstiedSubstr(substr, cells, hp) ==
    LET nrows == MinLen(substr)
    IN  IF \E r \in 1..nrows : ~InRange(cells, RowIdxs(substr, r))
        THEN Failed("IndexError")
        ELSE Solved(SeriesOfRows(asarray([r \in 1..nrows |->
                 CrosstiedRow(CrosstiedRowArgs(substr, r, cells, hp))])))

\* lines 332-393: crossties on some rows only
WalkResult(ws) == IF ws.err # "" THEN Failed(ws.err) ELSE Solved(WalkFinish(ws))

MixedSubstr(substr, cells, hp) ==
    WalkResult(WalkFrom(WalkStart, substr, 1, cells, hp))

SubstrCurve(substr, cells, hp) ==
    IF AllCrosstie(substr, FALSE) THEN SeriesSubstr(substr, cells, hp)
    ELSE IF AllCrosstie(substr, TRUE) THEN CrosstiedSubstr(substr, cells, hp)
    ELSE MixedSubstr(substr, cells, hp)

\* (mutant) the mask taken with the comparison the wrong way round
BypassAbove(Vsub, Vbypass) ==
    asarray([j \in DOMAIN Vsub |-> IF Vsub[j] > Vbypass THEN Vbypass ELSE Vsub[j]])

\* lines 394-395: the bypass diode
Bypass(Vsub, Vbypass) ==
    asarray([j \in DOMAIN Vsub |-> IF Vsub[j] < Vbypass THEN Vbypass ELSE Vsub[j]])

\* lines 398-407: the substrings in series
ModuleOfSubstrs(Isubstr, Vsubstr) ==
    LET mv == calcSeries(Isubstr, Vsubstr,
                  Mean(asarray([s \in DOMAIN Isubstr |->
                                    np_interp(0, Vsubstr[s], Isubstr[s])])),
                  SeqMax(asarray([s \in DOMAIN Isubstr |-> SeqMax(Isubstr[s])])))
    IN  [ok |-> TRUE, Imod |-> mv.I, Vmod |-> mv.V,
         Pmod |-> asarray([j \in DOMAIN mv.I |-> mv.I[j] * mv.V[j]]),
         Isubstr |-> Isubstr, Vsubstr |-> Vsubstr]

\* lines 300-407 once each substring's curve is known: the first substring
\* that raised ends the call, else the diodes and the series circuit
SubstrsInSeries(sub, Vbypass) ==
    IF \E s \in DOMAIN sub : ~sub[s].ok
    THEN Failed(sub[CHOOSE s \in DOMAIN sub :
                       ~sub[s].ok /\ \A t \in DOMAIN sub : ~sub[t].ok => s <= t].err)
    ELSE ModuleOfSubstrs(asarray([s \in DOMAIN sub |-> sub[s].I]),
                         asarray([s \in DOMAIN sub |-> Bypass(sub[s].V, Vbypass)]))

\* lines 292-407: PVmodule.calcMod
calcMod(cp, cells, hp, Vbypass) ==
    SubstrsInSeries(asarray([s \in DOMAIN cp |-> SubstrCurve(cp[s], cells, hp)]),
                    Vbypass)

---------------------------------------------------------------------------
(* setSuns.  The loops return the new value of the list being filled, the  *)
(* heap, and the number of irradiance assignments (pvc.Ee = ...) made.     *)

Range(s) == {s[i] : i \in DOMAIN s}

\* (mutant) no copy is made: the cell itself is used
CopyCellAlias(hp, o) == [hp |-> hp, id |-> o]

\* copy(pvcell): a new object with the fields of the old one
CopyCell(hp, o) == [hp |-> Append(hp, hp[o]), id |-> Len(hp) + 1]

\* pvc.Ee = Ee on the object o
SetEe(hp, o, Ee) == [hp EXCEPT ![o].Ee = Ee]

\* lines 240-245: one new cell per distinct old cell, shared by its aliases
RECURSIVE ScalarAllLoop(_, _, _, _, _)
ScalarAllLoop(L, k, new_pvcells, old_pvcells, hp) ==
    IF k > Len(L) THEN [list |-> new_pvcells, old |-> old_pvcells, hp |-> hp]
    ELSE IF old_pvcells[L[k]] = 0
         THEN LET c == CopyCell(hp, L[k])
              IN  ScalarAllLoop(L, k + 1, [new_pvcells EXCEPT ![k] = c.id],
                                [old_pvcells EXCEPT ![L[k]] = c.id], c.hp)
         ELSE ScalarAllLoop(L, k + 1, [new_pvcells EXCEPT ![k] = old_pvcells[L[k]]],
                            old_pvcells, hp)

\* lines 247-249: for pvc in old_pvcells.itervalues(): pvc.Ee = Ee
ScalarAllAssign(hp, news, Ee) ==
    [o \in DOMAIN hp |-> IF o \in news THEN [hp[o] EXCEPT !.Ee = Ee] ELSE hp[o]]

\* (mutant) every cell is copied, whether or not it shares its object
RECURSIVE ScalarAllNoShareLoop(_, _, _, _)
ScalarAllNoShareLoop(L, k, hp, Ee) ==
    IF k > Len(L) THEN [list |-> L, hp |-> hp, err |-> "", assigned |-> Len(L)]
    ELSE LET c == CopyCell(hp, L[k])
         IN  ScalarAllNoShareLoop([L EXCEPT ![k] = c.id], k + 1,
                                  SetEe(c.hp, c.id, Ee), Ee)

ScalarAllNoShare(L, hp, Ee) == ScalarAllNoShareLoop(L, 1, hp, Ee)

\* lines 237-249
ScalarAll(L, hp, Ee) ==
    LET lp == ScalarAllLoop(L, 1, [k \in 1..Len(L) |-> k - 1],
                            [o \in Range(L) |-> 0], hp)
        news == {lp.old[o] : o \in Range(L)}
    IN  [list |-> lp.list, hp |-> ScalarAllAssign(lp.hp, news, Ee), err |-> "",
         assigned |-> Cardinality(news)]

\* lines 252-254: every cell gets a copy of its own
RECURSIVE PerCellAllLoop(_, _, _, _)
PerCellAllLoop(L, k, hp, Ee) ==
    IF k > Len(Ee) THEN [list |-> L, hp |-> hp, err |-> "", assigned |-> Len(Ee)]
    ELSE LET c == CopyCell(hp, L[k])
         IN  PerCellAllLoop([L EXCEPT ![k] = c.id], k + 1,
                            SetEe(c.hp, c.id, Ee[k]), Ee)

\* lines 263-269 and 281-287: the cells `cells` (list indices) whose objects
\* were `cells_to_update` when the loop began
RECURSIVE GroupLoop(_, _, _, _, _, _, _, _)
GroupLoop(L, cells, cells_to_update, k, old_pvcells, hp, Ee, n) ==
    IF k > Len(cells) THEN [list |-> L, hp |-> hp, err |-> "", assigned |-> n]
    ELSE LET pvcell == cells_to_update[k]
             c == CopyCell(hp, pvcell)
         IN  IF old_pvcells[pvcell] = 0
             THEN GroupLoop([L EXCEPT ![cells[k] + 1] = c.id], cells,
                            cells_to_update, k + 1,
                            [old_pvcells EXCEPT ![pvcell] = c.id],
                            SetEe(c.hp, c.id, Ee), Ee, n + 1)
             ELSE GroupLoop([L EXCEPT ![cells[k] + 1] = old_pvcells[pvcell]], cells,
                            cells_to_update, k + 1, old_pvcells, hp, Ee, n)

\* (mutant) the loop without old_pvcells: a copy for every cell
RECURSIVE GroupNoShareLoop(_, _, _, _, _, _)
GroupNoShareLoop(L, cells, k, hp, Ee, n) ==
    IF k > Len(cells) THEN [list |-> L, hp |-> hp, err |-> "", assigned |-> n]
    ELSE LET c == CopyCell(hp, L[cells[k] + 1])
         IN  GroupNoShareLoop([L EXCEPT ![cells[k] + 1] = c.id], cells, k + 1,
                              SetEe(c.hp, c.id, Ee), Ee, n + 1)

GroupNoShare(L, cells, hp, Ee, n) ==
    IF \E k \in DOMAIN cells : cells[k] >= Len(L)
    THEN [list |-> L, hp |-> hp, err |-> "IndexError", assigned |-> n]
    ELSE GroupNoShareLoop(L, cells, 1, hp, Ee, n)

\* lines 261-262 / 279-280, then the loop; a cell index outside the list
\* raises IndexError while cells_to_update is built
Group(L, cells, hp, Ee, n) ==
    IF \E k \in DOMAIN cells : cells[k] >= Len(L)
    THEN [list |-> L, hp |-> hp, err |-> "IndexError", assigned |-> n]
    ELSE LET cells_to_update == [k \in DOMAIN cells |-> L[cells[k] + 1]]
         IN  GroupLoop(L, cells, cells_to_update, 1,
                       [o \in Range(cells_to_update) |-> 0], hp, Ee, n)

\* cells[np.where(Ee == a_Ee)]
RECURSIVE CellsWhere(_, _, _)
CellsWhere(cells, Ee, a_Ee) ==
    IF cells = <<>> THEN <<>>
    ELSE (IF Head(Ee) = a_Ee THEN <<Head(cells)>> ELSE <<>>)
         \o CellsWhere(Tail(cells), Tail(Ee), a_Ee)

\* np.unique(Ee): the distinct values, ascending
RECURSIVE np_unique(_)
np_unique(S) ==
    IF S = {} THEN <<>>
    ELSE LET m == CHOOSE x \in S : \A y \in S : x <= y
         IN  <<m>> \o np_unique(S \ {m})

\* lines 277-287: for a_Ee in unique_ee
RECURSIVE PerCellSubsetLoop(_, _, _, _, _, _, _)
PerCellSubsetLoop(L, cells, Ee, unique_ee, u, hp, n) ==
    IF u > Len(unique_ee) THEN [list |-> L, hp |-> hp, err |-> "", assigned |-> n]
    ELSE LET g == Group(L, CellsWhere(cells, Ee, unique_ee[u]), hp, unique_ee[u], n)
         IN  IF g.err # "" THEN g
             ELSE PerCellSubsetLoop(g.list, cells, Ee, unique_ee, u + 1, g.hp,
                                    g.assigned)

\* (mutant) the irradiances are paired with the cells as zip() would, the
\* values or cells left over ignored
UpdateCellsZip(L, hp, inp) ==
    LET n == IF inp.hasCells THEN Len(inp.cells) ELSE Len(L)
        m == IF Len(inp.EeSeq) < n THEN Len(inp.EeSeq) ELSE n
    IN  IF ~inp.hasCells
        THEN IF inp.scalar
             THEN ScalarAll(L, hp, inp.Ee) @@ [newlist |-> TRUE]
             ELSE PerCellAllLoop(L, 1, hp, SubSeq(inp.EeSeq, 1, m))
                  @@ [newlist |-> TRUE]
        ELSE IF inp.scalar
             THEN Group(L, inp.cells, hp, inp.Ee, 0) @@ [newlist |-> TRUE]
             ELSE PerCellSubsetLoop(L, SubSeq(inp.cells, 1, m), SubSeq(inp.EeSeq, 1, m),
                                    np_unique(Range(SubSeq(inp.EeSeq, 1, m))), 1, hp, 0)
                  @@ [newlist |-> TRUE]

\* lines 236-289: the cell bindings after the call.  `newlist` tells whether
\* self.pvcells was bound to a new list object.
UpdateCells(L, hp, inp) ==
    IF ~inp.hasCells
    THEN IF inp.scalar
         THEN ScalarAll(L, hp, inp.Ee) @@ [newlist |-> TRUE]
         ELSE IF Len(inp.EeSeq) = Len(L)
              THEN PerCellAllLoop(L, 1, hp, inp.EeSeq) @@ [newlist |-> TRUE]
              ELSE [list |-> L, hp |-> hp, err |-> "InvalidInput", assigned |-> 0,
                    newlist |-> FALSE]
    ELSE IF inp.scalar
         THEN Group(L, inp.cells, hp, inp.Ee, 0) @@ [newlist |-> TRUE]
         ELSE IF Len(inp.EeSeq) = Len(inp.cells)
              THEN PerCellSubsetLoop(L, inp.cells, inp.EeSeq,
                                     np_unique(Range(inp.EeSeq)), 1, hp, 0)
                   @@ [newlist |-> TRUE]
              ELSE [list |-> L, hp |-> hp, err |-> "InvalidInput", assigned |-> 0,
                    newlist |-> TRUE]

---------------------------------------------------------------------------
(* The module's life: construction, then calls of setSuns *)

Vbypass == VBYPASS

EeValues == {1, 2}

RECURSIVE SeqsUpTo(_, _)
\* the non-empty sequences over S of length at most n
SeqsUpTo(S, n) ==
    IF n = 0 THEN {}
    ELSE SeqsUpTo(S, n - 1) \cup [1..n -> S]

\* lists of cells as a caller builds them, up to the names of the objects:
\* the first cell is object 1, each later cell an object already in the list
\* or the next new one
CallerLists(n) ==
    {s \in [1..n -> 1..n] :
        /\ s[1] = 1
        /\ \A k \in 2..n : \E j \in 1..(k - 1) : s[k] <= s[j] + 1}

\* one-column substring of the given crosstie flags and indices
Column(flags, idxs) == [r \in DOMAIN flags |-> Slot(flags[r], idxs[r])]

\* The cell position patterns a module is built on: patterns of the two
\* builders (series, two substrings, crosstied, partially crosstied), a
\* pattern whose first row is not crosstied, one that names cell 0 twice
\* and one that names a cell the module does not have.
Topologies ==
    { standard_cellpos_pat(1, <<2>>),
      standard_cellpos_pat(1, <<1, 1>>),
      crosstied_cellpos_pat(<<1>>, 2, FALSE),
      crosstied_cellpos_pat(<<3>>, 1, TRUE),
      <<<<Column(<<FALSE, TRUE>>, <<0, 1>>)>>>>,
      <<<<Column(<<FALSE>>, <<0>>), Column(<<FALSE>>, <<0>>)>>>>,
      <<<<Column(<<FALSE>>, <<0>>), Column(<<FALSE>>, <<2>>)>>>> }

NoDerived == [ok |-> FALSE, err |-> "unset"]

NoInput == [hasCells |-> FALSE, cells |-> <<>>, scalar |-> TRUE, Ee |-> 0,
            EeSeq |-> <<>>]

NoPre == [cells |-> <<>>, heap |-> <<>>, listHeap |-> <<>>, derived |-> NoDerived]

WalkIdle == [pc |-> "idle", k |-> 0, ws |-> WalkStart]

\* the constructor's pvcells argument: None, one PVcell, or a list of them
CtorArgs(n) ==
    {[kind |-> "none", heap |-> <<>>, lists |-> <<>>],
     [kind |-> "cell", heap |-> <<PVcell(1, VRBD0)>>, lists |-> <<>>]}
    \cup {[kind |-> "list",
           heap |-> [o \in 1..SeqMax(s) |-> PVcell(1, VRBD0)],
           lists |-> <<s>>] : s \in CallerLists(n) \cup CallerLists(n + 1)}

Init ==
    /\ phase = "new"
    /\ cell_pos \in Topologies
    /\ \E a \in CtorArgs(numberCellsOf(cell_pos)) :
          /\ ctorCells = a.kind
          /\ heap = a.heap
          /\ listHeap = a.lists
    /\ pvcells = 0
    /\ derived = NoDerived
    /\ pre = NoPre
    /\ last = [op |-> "none", inp |-> NoInput, outcome |-> "", assigned |-> 0]
    /\ ncalls = 0
    /\ walk = WalkIdle

\* lines 172-178: the list of cells the module starts with
CtorCells(kind, hp, lists, numberCells) ==
    IF kind = "none"
    THEN [hp |-> Append(hp, PVcell(1, VRBD0)),
          lists |-> Append(lists, [k \in 1..numberCells |-> Len(hp) + 1])]
    ELSE IF kind = "cell"
    THEN [hp |-> hp, lists |-> Append(lists, [k \in 1..numberCells |-> 1])]
    ELSE [hp |-> hp, lists |-> lists]

\* lines 163-188: PVmodule.__init__
Construct ==
    /\ phase = "new"
    /\ walk.pc = "idle"
    /\ \E numberCells \in {numberCellsOf(cell_pos)} :
       \E c \in {CtorCells(ctorCells, heap, listHeap, numberCells)} :
       \E L \in {c.lists[Len(c.lists)]} :
       \E res \in {IF Len(L) # numberCells THEN Failed("ConfigurationError")
                   ELSE calcMod(cell_pos, L, c.hp, Vbypass)} :
          /\ heap' = c.hp
          /\ listHeap' = c.lists
          /\ phase' = IF res.ok THEN "built" ELSE "failed"
          /\ pvcells' = IF Len(L) = numberCells THEN Len(c.lists) ELSE 0
          /\ derived' = IF res.ok THEN res ELSE NoDerived
          /\ last' = [op |-> "init", inp |-> NoInput,
                      outcome |-> IF res.ok THEN "ok" ELSE res.err,
                      assigned |-> 0]
    /\ pre' = NoPre
    /\ UNCHANGED <<cell_pos, ctorCells, ncalls, walk>>

\* the arguments of a setSuns call on a module of n cells: Ee a scalar or a
\* sequence, cells absent or a list of indices (n is outside the module)
SetSunsInputs(n) ==
    {[hasCells |-> FALSE, cells |-> <<>>, scalar |-> TRUE, Ee |-> e, EeSeq |-> <<>>] :
        e \in EeValues}
    \cup {[hasCells |-> FALSE, cells |-> <<>>, scalar |-> FALSE, Ee |-> 0, EeSeq |-> s] :
        s \in SeqsUpTo(EeValues, n + 1)}
    \cup {[hasCells |-> TRUE, cells |-> c, scalar |-> TRUE, Ee |-> e, EeSeq |-> <<>>] :
        c \in SeqsUpTo(0..n, MaxTargets), e \in EeValues}
    \cup UNION {{[hasCells |-> TRUE, cells |-> c, scalar |-> FALSE, Ee |-> 0,
                  EeSeq |-> s] : s \in SeqsUpTo(EeValues, Len(c) + 1)} :
                c \in SeqsUpTo(0..n, MaxTargets)}

\* lines 225-290: PVmodule.setSuns
setSuns(inp) ==
    \E u \in {UpdateCells(listHeap[pvcells], heap, inp)} :
    \E res \in {IF u.err # "" THEN Failed(u.err)
                ELSE calcMod(cell_pos, u.list, u.hp, Vbypass)} :
       /\ heap' = u.hp
       /\ listHeap' = IF u.newlist THEN Append(listHeap, u.list) ELSE listHeap
       /\ pvcells' = IF u.newlist THEN Len(listHeap) + 1 ELSE pvcells
       /\ derived' = IF res.ok THEN res ELSE derived
       /\ pre' = [cells |-> listHeap[pvcells], heap |-> heap,
                  listHeap |-> listHeap, derived |-> derived]
       /\ last' = [op |-> "setSuns", inp |-> inp,
                   outcome |-> IF res.ok THEN "ok" ELSE res.err,
                   assigned |-> u.assigned]

SetSuns ==
    /\ phase = "built"
    /\ walk.pc = "idle"
    /\ ncalls < MaxCalls
    /\ \E inp \in SetSunsInputs(Len(listHeap[pvcells])) : setSuns(inp)
    /\ ncalls' = ncalls + 1
    /\ UNCHANGED <<phase, cell_pos, ctorCells, walk>>

Next == Construct \/ SetSuns

Spec == Init /\ [][Next]_vars

\* self.pvcells as a sequence of objects
Cells == listHeap[pvcells]

---------------------------------------------------------------------------
(* Construction of a module of one mixed substring, with calcMod's walk    *)
(* over the substring's columns unfolded: one action per column.           *)

WalkRows == 3

\* substrings of ncols columns of WalkRows rows with any crosstie flags,
\* numbered column by column
WalkSubstrs(ncols) ==
    {[c \in 1..ncols |-> [r \in 1..WalkRows |->
            Slot(f[c][r], (c - 1) * WalkRows + r - 1)]] :
        f \in [1..ncols -> [1..WalkRows -> BOOLEAN]]}

MixedSubstrs ==
    {s \in UNION {WalkSubstrs(n) : n \in 1..MaxCols} :
        ~AllCrosstie(s, FALSE) /\ ~AllCrosstie(s, TRUE)}

WalkInit ==
    /\ phase = "new"
    /\ \E s \in MixedSubstrs : cell_pos = <<s>>
    /\ ctorCells = "none"
    /\ heap = <<>>
    /\ listHeap = <<>>
    /\ pvcells = 0
    /\ derived = NoDerived
    /\ pre = NoPre
    /\ last = [op |-> "none", inp |-> NoInput, outcome |-> "", assigned |-> 0]
    /\ ncalls = 0
    /\ walk = WalkIdle

\* lines 166-186, then calcMod up to line 335
WalkBegin ==
    /\ phase = "new"
    /\ walk.pc = "idle"
    /\ LET c == CtorCells(ctorCells, heap, listHeap, numberCellsOf(cell_pos))
       IN  /\ heap' = c.hp
           /\ listHeap' = c.lists
           /\ pvcells' = Len(c.lists)
    /\ phase' = "calcMod"
    /\ walk' = [pc |-> "cols", k |-> 1, ws |-> WalkStart]
    /\ UNCHANGED <<cell_pos, ctorCells, derived, pre, last, ncalls>>

\* lines 336-380: the next column
WalkColumn ==
    /\ walk.pc = "cols"
    /\ walk.k <= Len(cell_pos[1])
    /\ LET ws == WalkCol(walk.ws, cell_pos[1][walk.k], walk.k, Cells, heap)
       IN  /\ walk' = [pc |-> IF ws.err # "" THEN "raised" ELSE "cols",
                       k |-> walk.k + 1, ws |-> ws]
           /\ phase' = IF ws.err # "" THEN "failed" ELSE phase
           /\ last' = IF ws.err # ""
                      THEN [op |-> "init", inp |-> NoInput, outcome |-> ws.err,
                            assigned |-> 0]
                      ELSE last
    /\ UNCHANGED <<cell_pos, ctorCells, pvcells, listHeap, heap, derived, pre, ncalls>>

\* lines 381-407, then line 188
WalkEnd ==
    /\ walk.pc = "cols"
    /\ walk.k > Len(cell_pos[1])
    /\ LET sv == WalkFinish(walk.ws)
       IN  derived' = ModuleOfSubstrs(<<sv.I>>, <<Bypass(sv.V, Vbypass)>>)
    /\ walk' = [walk EXCEPT !.pc = "done"]
    /\ phase' = "built"
    /\ last' = [op |-> "init", inp |-> NoInput, outcome |-> "ok", assigned |-> 0]
    /\ UNCHANGED <<cell_pos, ctorCells, pvcells, listHeap, heap, pre, ncalls>>

WalkNext == WalkBegin \/ WalkColumn \/ WalkEnd

SpecWalk == WalkInit /\ [][WalkNext]_vars

\* the unfolded walk builds what calcMod returns
WalkAgreesWithCalcMod ==
    walk.pc = "done" => derived = calcMod(cell_pos, Cells, heap, Vbypass)

---------------------------------------------------------------------------
(* What the claims speak of *)

\* the last operation was a setSuns call / one that returned normally
Called == last.op = "setSuns"
Returned == Called /\ last.outcome = "ok"

\* the cells a call targets, in the order given: cells, or every cell
TargetSeq(inp, n) == IF inp.hasCells THEN inp.cells ELSE [k \in 1..n |-> k - 1]
Targets(inp, n) == Range(TargetSeq(inp, n))

\* the objects that did not exist before the last call
IsNew(o) == o > Len(pre.heap)
Created == Len(heap) - Len(pre.heap)

\* (prior object, requested irradiance) of the targeted cells of a per-cell call
Pairs(inp) ==
    LET t == TargetSeq(inp, Len(pre.cells))
    IN  {<<pre.cells[t[k] + 1], inp.EeSeq[k]>> : k \in DOMAIN t}

Distinct(s) == \A j, k \in DOMAIN s : j # k => s[j] # s[k]

---------------------------------------------------------------------------
\* C1: a setSuns call that fails leaves the cell bindings and the derived
\* curves (Imod, Vmod, Pmod, Isubstr, Vsubstr) as they were before the call.
C1_FailedCallPreservesState ==
    (Called /\ last.outcome # "ok") => (Cells = pre.cells /\ derived = pre.derived)

\* C2: a setSuns call with one irradiance per targeted cell creates as many
\* objects as there are distinct (prior object, value) pairs, and targeted
\* cells with the same pair share their new object.
C2_OnePerPair ==
    (Returned /\ ~last.inp.scalar) =>
        LET t == TargetSeq(last.inp, Len(pre.cells))
        IN  /\ Created = Cardinality(Pairs(last.inp))
            /\ \A j, k \in DOMAIN t :
                  (/\ pre.cells[t[j] + 1] = pre.cells[t[k] + 1]
                   /\ last.inp.EeSeq[j] = last.inp.EeSeq[k])
                  => Cells[t[j] + 1] = Cells[t[k] + 1]

\* C2, amended: that holds when `cells` is given and names each cell once;
\* when `cells` is not given every cell gets a new object of its own.
C2_OnePerPairOfSubset ==
    (Returned /\ ~last.inp.scalar) =>
        LET t == TargetSeq(last.inp, Len(pre.cells))
        IN  IF last.inp.hasCells
            THEN Distinct(t) =>
                 /\ Created = Cardinality(Pairs(last.inp))
                 /\ \A j, k \in DOMAIN t :
                       (/\ pre.cells[t[j] + 1] = pre.cells[t[k] + 1]
                        /\ last.inp.EeSeq[j] = last.inp.EeSeq[k])
                       <=> Cells[t[j] + 1] = Cells[t[k] + 1]
                 /\ \A k \in DOMAIN t :
                       IsNew(Cells[t[k] + 1]) /\ heap[Cells[t[k] + 1]].Ee = last.inp.EeSeq[k]
            ELSE /\ Created = Len(Cells)
                 /\ Distinct(Cells)
                 /\ \A k \in DOMAIN Cells :
                       IsNew(Cells[k]) /\ heap[Cells[k]].Ee = last.inp.EeSeq[k]

\* two cells that shared an object were given the same value through `cells`
C2_Witness ==
    /\ Returned /\ ~last.inp.scalar /\ last.inp.hasCells
    /\ Distinct(last.inp.cells) /\ Len(last.inp.cells) = 2
    /\ Created = 1

\* C3: a module exists only if every index 0..N-1 appears exactly once in
\* its cell position pattern.
C3_IndicesChecked ==
    phase = "built" =>
        LET slots == SlotsOf(cell_pos)
        IN  /\ \A i \in 0..(Len(slots) - 1) : \E k \in DOMAIN slots : slots[k].idx = i
            /\ \A j, k \in DOMAIN slots : j # k => slots[j].idx # slots[k].idx

\* C4: in every state of a module the stored curves are calcMod of the
\* current cell bindings.
C4_NeverStale ==
    phase = "built" => derived = calcMod(cell_pos, Cells, heap, Vbypass)

\* C5: a setSuns call with a scalar irradiance binds the targeted cells that
\* shared an object to one new object, cells of different objects to
\* different new objects, with one copy and one irradiance assignment per
\* distinct prior object.
C5_ScalarSharing ==
    (Returned /\ last.inp.scalar) =>
        LET T == Targets(last.inp, Len(pre.cells))
            priors == {pre.cells[i + 1] : i \in T}
        IN  /\ \A i, j \in T : (pre.cells[i + 1] = pre.cells[j + 1])
                                <=> (Cells[i + 1] = Cells[j + 1])
            /\ \A i \in T : IsNew(Cells[i + 1]) /\ heap[Cells[i + 1]].Ee = last.inp.Ee
            /\ Created = Cardinality(priors)
            /\ last.assigned = Cardinality(priors)

\* three cells of two objects were all set to one irradiance
C5_Witness ==
    /\ Returned /\ last.inp.scalar
    /\ Len(pre.cells) = 3
    /\ Targets(last.inp, 3) = {0, 1, 2}
    /\ Cardinality(Range(pre.cells)) = 2
    /\ Created = 2

\* C6: setSuns rebinds targeted cells to new objects and does nothing else:
\* the other cells keep their objects, and no object or list of cells that
\* existed before the call is changed.
C6_Frame ==
    Called =>
        /\ Len(Cells) = Len(pre.cells)
        /\ \A i \in 0..(Len(Cells) - 1) :
              \/ Cells[i + 1] = pre.cells[i + 1]
              \/ i \in Targets(last.inp, Len(pre.cells)) /\ IsNew(Cells[i + 1])
        /\ \A o \in DOMAIN pre.heap : heap[o] = pre.heap[o]
        /\ \A l \in DOMAIN pre.listHeap : listHeap[l] = pre.listHeap[l]

\* one of two cells sharing an object was given another irradiance
C6_Witness ==
    /\ Returned /\ last.inp.hasCells
    /\ Len(pre.cells) >= 2
    /\ last.inp.cells = <<0>>
    /\ pre.cells[1] = pre.cells[2]
    /\ heap[Cells[1]].Ee # heap[Cells[2]].Ee

\* the curve of substring s before the bypass diode is applied
RawSubstr(s) == SubstrCurve(cell_pos[s], Cells, heap)

\* C7: no sample of a substring's voltage is below Vbypass; the diode sets
\* the samples below Vbypass to Vbypass, leaves the other voltages and the
\* currents alone, and changes nothing when applied again.
C7_BypassClamp ==
    phase = "built" =>
        /\ \A s \in DOMAIN derived.Vsubstr : \A j \in DOMAIN derived.Vsubstr[s] :
              derived.Vsubstr[s][j] >= Vbypass
        /\ \A s \in DOMAIN derived.Vsubstr :
              Bypass(derived.Vsubstr[s], Vbypass) = derived.Vsubstr[s]
        /\ last.outcome = "ok" =>
              \A s \in DOMAIN cell_pos :
                  /\ derived.Isubstr[s] = RawSubstr(s).I
                  /\ \A j \in 1..NPTS :
                        derived.Vsubstr[s][j] =
                            IF RawSubstr(s).V[j] < Vbypass THEN Vbypass
                            ELSE RawSubstr(s).V[j]

\* a substring with a sample below Vbypass and a sample above it
C7_Witness ==
    /\ Returned
    /\ \E s \in DOMAIN cell_pos : \E i, j \in 1..NPTS :
          RawSubstr(s).V[i] < Vbypass /\ RawSubstr(s).V[j] > Vbypass

\* the number of cells a call targets
TargetCount(inp, n) == IF inp.hasCells THEN Len(inp.cells) ELSE n

\* C8: a sequence of irradiances whose length is not the number of targeted
\* cells is refused as invalid input, and nothing changes.
C8_WrongLengthRefused ==
    (Called /\ ~last.inp.scalar
        /\ Len(last.inp.EeSeq) # TargetCount(last.inp, Len(pre.cells))) =>
        /\ last.outcome = "InvalidInput"
        /\ Cells = pre.cells
        /\ heap = pre.heap
        /\ derived = pre.derived

\* too few values for a subset of a module that was set before
C8_Witness ==
    /\ Called /\ ~last.inp.scalar /\ last.inp.hasCells
    /\ Len(last.inp.EeSeq) < Len(last.inp.cells)
    /\ ncalls = 2
    /\ last.outcome = "InvalidInput"

\* C9: when a column's crosstie flags differ from the previous column's,
\* the block that is closed holds the pending columns without the differing
\* column, which starts the new pending group and is the column the next
\* one is compared with.
C9_BlockExcludesDifferingColumn ==
    (/\ walk.pc = "cols" /\ walk.k > 2
     /\ ~SameCircuits(cell_pos[1][walk.k - 2], cell_pos[1][walk.k - 1])) =>
        /\ walk.ws.blocks # <<>>
        /\ (walk.k - 1) \notin Range(walk.ws.blocks[Len(walk.ws.blocks)])
        /\ walk.ws.pending = <<walk.k - 1>>
        /\ walk.ws.prev_col = cell_pos[1][walk.k - 1]

\* C10: when the walk is over every column of the substring is in exactly
\* one of the blocks that make the substring's curve.
C10_EveryColumnInOneBlock ==
    walk.pc = "done" =>
        \A c \in DOMAIN cell_pos[1] :
            Cardinality({b \in DOMAIN WalkUsed(walk.ws) :
                            c \in Range(WalkUsed(walk.ws)[b])}) = 1

---------------------------------------------------------------------------
(* Construction of a module of crosstied substrings whose cells differ in  *)
(* irradiance and breakdown voltage, with calcMod's loop over the rows     *)
(* unfolded: one action per row, recording the arguments of calcParallel.  *)

VRBDValues == {VRBD0, VRBD0 - 2}

\* modules of pure-crosstied substrings: two substrings of one row, a
\* substring of two rows before one of one row, one substring of two rows
RowsTopologies ==
    { crosstied_cellpos_pat(<<1, 1>>, 2, FALSE),
      crosstied_cellpos_pat(<<2, 1>>, 1, FALSE),
      crosstied_cellpos_pat(<<2>>, 2, FALSE) }

\* nothing combined yet; `of` and `idxs` name the substring and the cells of
\* the last row given to calcParallel (of = 0: none yet)
RowsStart == [s |-> 1, rows |-> <<>>, subs |-> <<>>, of |-> 0, idxs |-> <<>>,
              hint_Vmax |-> 0, hint_Vmin |-> 0]

\* the caller's list: one PVcell of its own for every cell position
RowsInit ==
    /\ phase = "new"
    /\ cell_pos \in RowsTopologies
    /\ ctorCells = "list"
    /\ \E e \in [1..numberCellsOf(cell_pos) -> EeValues] :
       \E v \in [1..numberCellsOf(cell_pos) -> VRBDValues] :
          /\ heap = [o \in 1..numberCellsOf(cell_pos) |-> PVcell(e[o], v[o])]
          /\ listHeap = <<[o \in 1..numberCellsOf(cell_pos) |-> o]>>
    /\ pvcells = 0
    /\ derived = NoDerived
    /\ pre = NoPre
    /\ last = [op |-> "none", inp |-> NoInput, outcome |-> "", assigned |-> 0]
    /\ ncalls = 0
    /\ walk = WalkIdle

\* lines 166-186, then calcMod up to line 300
RowsBegin ==
    /\ phase = "new"
    /\ walk.pc = "idle"
    /\ \E c \in {CtorCells(ctorCells, heap, listHeap, numberCellsOf(cell_pos))} :
          /\ heap' = c.hp
          /\ listHeap' = c.lists
          /\ pvcells' = Len(c.lists)
    /\ phase' = "calcMod"
    /\ walk' = [pc |-> "rows", k |-> 1, ws |-> RowsStart]
    /\ UNCHANGED <<cell_pos, ctorCells, derived, pre, last, ncalls>>

\* lines 316-325: the next row of the substring
RowsRow ==
    /\ walk.pc = "rows"
    /\ walk.ws.s <= Len(cell_pos)
    /\ walk.k <= MinLen(cell_pos[walk.ws.s])
    /\ \E a \in {CrosstiedRowArgs(cell_pos[walk.ws.s], walk.k, Cells, heap)} :
          walk' = [pc |-> "rows", k |-> walk.k + 1,
                   ws |-> [walk.ws EXCEPT
                              !.rows = Append(@, CrosstiedRow(a)),
                              !.of = walk.ws.s,
                              !.idxs = RowIdxs(cell_pos[walk.ws.s], walk.k),
                              !.hint_Vmax = a.hint_Vmax,
                              !.hint_Vmin = a.hint_Vmin]]
    /\ UNCHANGED <<phase, cell_pos, ctorCells, pvcells, listHeap, heap, derived,
                   pre, last, ncalls>>

\* lines 326-331 and 396-397: the rows in series, then the next substring
RowsSubstr ==
    /\ walk.pc = "rows"
    /\ walk.ws.s <= Len(cell_pos)
    /\ walk.k > MinLen(cell_pos[walk.ws.s])
    /\ walk' = [pc |-> "rows", k |-> 1,
                ws |-> [walk.ws EXCEPT
                           !.s = @ + 1,
                           !.rows = <<>>,
                           !.subs = Append(@, Solved(SeriesOfRows(walk.ws.rows)))]]
    /\ UNCHANGED <<phase, cell_pos, ctorCells, pvcells, listHeap, heap, derived,
                   pre, last, ncalls>>

\* lines 394-407, then line 188
RowsEnd ==
    /\ walk.pc = "rows"
    /\ walk.ws.s > Len(cell_pos)
    /\ derived' = SubstrsInSeries(walk.ws.subs, Vbypass)
    /\ walk' = [walk EXCEPT !.pc = "done"]
    /\ phase' = "built"
    /\ last' = [op |-> "init", inp |-> NoInput, outcome |-> "ok", assigned |-> 0]
    /\ UNCHANGED <<cell_pos, ctorCells, pvcells, listHeap, heap, pre, ncalls>>

RowsNext == RowsBegin \/ RowsRow \/ RowsSubstr \/ RowsEnd

SpecRows == RowsInit /\ [][RowsNext]_vars

\* the unfolded loop builds what calcMod returns
RowsAgreeWithCalcMod ==
    walk.pc = "done" => derived = calcMod(cell_pos, Cells, heap, Vbypass)

\* a row has been given to calcParallel
RowCombined == walk.pc \in {"rows", "done"} /\ walk.ws.of > 0

\* every cell index of a substring
SubstrIdxs(substr) ==
    LET flat == Flatten(substr) IN [k \in DOMAIN flat |-> flat[k].idx]

\* hint_Vmax is the largest open-circuit voltage of the row's cells
HintVmaxOfRow ==
    RowCombined => walk.ws.hint_Vmax = SeqMax(VocAt(Cells, heap, walk.ws.idxs))

\* hint_Vmin is the smallest breakdown voltage of the cells of the whole module
HintVminOfModule ==
    RowCombined => walk.ws.hint_Vmin = SeqMin(VRBD(Cells, heap))

\* C11: for a pure-crosstied substring, the hint_Vmin given to each row's
\* parallel-combine is the smallest reverse-breakdown voltage of the cells
\* of that substring only (cells of other substrings do not influence it),
\* and the hint_Vmax is the largest open-circuit voltage of the row's cells.
C11_HintsOfSubstring ==
    RowCombined =>
        /\ walk.ws.hint_Vmin =
              SeqMin(VRBDAt(Cells, heap, SubstrIdxs(cell_pos[walk.ws.of])))
        /\ walk.ws.hint_Vmax = SeqMax(VocAt(Cells, heap, walk.ws.idxs))

====
